---- MODULE Spec2Model ----
(***************************************************************************)
(* Model of app.py (Neurix MVP): one Streamlit session running the script  *)
(* top to bottom on every interaction.  Text is a sequence of one-char     *)
(* strings so that len(), slicing, strip(), lower() and split() are        *)
(* computed, not assumed.                                                  *)
(***************************************************************************)
EXTENDS Integers, Sequences, FiniteSets, TLC

VARIABLES config, sb, pc, nodes, table, g, graph_html, response

vars == <<config, sb, pc, nodes, table, g, graph_html, response>>

\* ------------------------------------------------------------------ bounds
MaxNodes == 3
MaxTextNodes == 1

\* ------------------------------------------------------- program constants
TopK == 8
LabelLen == 30
FallbackLen == 200
MinKeyLen == 4

Ellipsis == <<".", ".", ".">>

\* ------------------------------------------------------------ text helpers
SetMin(S) == CHOOSE x \in S : \A y \in S : x <= y
SetMax(S) == CHOOSE x \in S : \A y \in S : x >= y

\* text[:n]
Prefix(text, n) == SubSeq(text, 1, IF Len(text) < n THEN Len(text) ELSE n)

\* a text of length n made by cycling through base (input generator)
Cycle(base, n) == [i \in 1..n |-> base[((i - 1) % Len(base)) + 1]] \o <<>>

Whitespace == {" ", "\n", "\t"}

UpperChars == <<"A","B","C","D","E","F","G","H","I","J","K","L","M",
                "N","O","P","Q","R","S","T","U","V","W","X","Y","Z">>
LowerChars == <<"a","b","c","d","e","f","g","h","i","j","k","l","m",
                "n","o","p","q","r","s","t","u","v","w","x","y","z">>

\* str.lower() on the ASCII alphabet of the model
lower_char(c) ==
  IF \E k \in 1..26 : UpperChars[k] = c
  THEN LowerChars[CHOOSE k \in 1..26 : UpperChars[k] = c]
  ELSE c
lower(text) == [i \in 1..Len(text) |-> lower_char(text[i])] \o <<>>

\* str.strip(chars): drop leading and trailing characters that are in chars
strip(text, chars) ==
  LET keep == {i \in 1..Len(text) : text[i] \notin chars}
  IN  IF keep = {} THEN <<>> ELSE SubSeq(text, SetMin(keep), SetMax(keep))

\* 1, 2, ..., n as a sequence
Indices(n) == [i \in 1..n |-> i] \o <<>>

\* str.split(): maximal runs of non-whitespace, in order: the n-th word runs
\* from the n-th position that starts a run to the n-th that ends one
split(text) ==
  LET starts == SelectSeq(Indices(Len(text)), LAMBDA i :
                  text[i] \notin Whitespace /\ (i = 1 \/ text[i-1] \in Whitespace))
      ends   == SelectSeq(Indices(Len(text)), LAMBDA j :
                  text[j] \notin Whitespace
                  /\ (j = Len(text) \/ text[j+1] \in Whitespace))
  IN  [n \in 1..Len(starts) |-> SubSeq(text, starts[n], ends[n])] \o <<>>

\* Counter(items).most_common(): by count, descending; ties keep the order of
\* first occurrence (the sort is stable over the Counter's insertion order)
most_common(items) ==
  LET first == SelectSeq(Indices(Len(items)), LAMBDA i :
                 \A k \in 1..(i - 1) : items[k] # items[i])
      count == [e \in 1..Len(first) |->
                  Cardinality({i \in 1..Len(items) : items[i] = items[first[e]]})]
               \o <<>>
      rank  == [e \in 1..Len(first) |->
                  Cardinality({d \in 1..Len(first) :
                                 \/ count[d] > count[e]
                                 \/ count[d] = count[e] /\ d < e})] \o <<>>
  IN  [n \in 1..Len(first) |->
         items[first[CHOOSE e \in 1..Len(first) : rank[e] = n - 1]]] \o <<>>

KeyPunct == {".", ",", "!", "?", ":", ";", "\"", "'"}

stopwords ==
  { <<"t","h","a","t">>, <<"w","i","t","h">>, <<"t","h","i","s">>,
    <<"a","b","o","u","t">>, <<"a","f","t","e","r">>, <<"b","e","f","o","r","e">>,
    <<"w","h","e","r","e">>, <<"w","h","i","c","h">>, <<"w","h","i","l","e">>,
    <<"t","h","e","r","e">>, <<"t","h","e","i","r">>, <<"w","o","u","l","d">>,
    <<"c","o","u","l","d">>, <<"s","h","o","u","l","d">>, <<"y","o","u","r">>,
    <<"f","r","o","m">>, <<"h","a","v","e">>, <<"j","u","s","t">>,
    <<"t","h","e","y">>, <<"t","h","e","m">>, <<"w","h","a","t">>,
    <<"w","h","e","n">> }

\* the words of extract_keys that can become keys, in text order
candidates(text) ==
  LET raw   == split(lower(text))
      words == [i \in 1..Len(raw) |-> strip(raw[i], KeyPunct)] \o <<>>
  IN  SelectSeq(words, LAMBDA w : Len(w) > MinKeyLen /\ w \notin stopwords)

\* variant: the cap is not applied
extract_keys_uncapped(text, top_k) == most_common(candidates(text))

extract_keys(text, top_k) == Prefix(most_common(candidates(text)), top_k)

\* variant: a text of exactly FallbackLen characters is returned as it is
summarize_inclusive(text, resp) ==
  IF resp.kind = "ok"
  THEN strip(resp.summary_text, Whitespace)
  ELSE IF Len(text) <= FallbackLen THEN text ELSE Prefix(text, FallbackLen) \o Ellipsis

\* summarize(): resp is what the HTTP call did: "ok" with a body holding
\* summary_text, or "error" (any requests.exceptions.RequestException)
summarize(text, resp) ==
  IF resp.kind = "ok"
  THEN strip(resp.summary_text, Whitespace)
  ELSE IF Len(text) < FallbackLen THEN text ELSE Prefix(text, FallbackLen) \o Ellipsis

\* ------------------------------------------------------------ input pools
NoText == <<>>
OceanText  == <<"O","c","e","a","n"," ","c","l","i","m","a","t","e",".">>
FinanceText == <<"f","i","n","a","n","c","e">>
\* 29 and 30 characters
Text29 == <<"c","l","i","m","a","t","e"," ","p","o","l","i","c","y"," ",
            "a","b","o","u","t"," ","p","o","l","i","c","y","!","!">>
Text30 == <<"f","i","n","a","n","c","e"," ","f","i","n","a","n","c","e"," ",
            "f","i","n","a","n","c","e"," ","m","a","r","k","e","t">>
\* 108 characters, twelve distinct candidate words, two of them repeated
TwelveWords ==
  <<"a","l","p","h","a","1"," ","b","r","a","v","o","2"," ",
    "c","h","a","r","l","i","e"," ","d","e","l","t","a","4"," ",
    "e","c","h","o","e","s"," ","f","o","x","t","r","o","t"," ",
    "g","o","l","f","e","r"," ","h","o","t","e","l","s"," ",
    "i","n","d","i","g","o"," ","j","u","l","i","e","t"," ",
    "k","i","l","o","s","1"," ","l","i","m","a","s","2"," ",
    "j","u","l","i","e","t",","," ","L","i","m","a","s","2"," ",
    "l","i","m","a","s","2",".">>
Text199 == Cycle(TwelveWords \o <<" ">>, 199)
Text200 == Cycle(TwelveWords \o <<" ">>, 200)
Text350 == Cycle(TwelveWords \o <<" ">>, 350)

\* bodies the summarization endpoint may answer with
BlankSummary  == <<" "," ">>
PolicySummary == <<" ","C","l","i","m","a","t","e"," ","p","o","l","i","c","y","."," ">>
TwelveSummary == <<" ">> \o TwelveWords \o <<"\n">>

Note(text) ==
  [uploaded |-> FALSE, type |-> "", name |-> "", raw |-> <<>>, user_text |-> text]
Upload(type, name, raw) ==
  [uploaded |-> TRUE, type |-> type, name |-> name, raw |-> raw, user_text |-> <<>>]

HttpError == [kind |-> "error", summary_text |-> <<>>]
HttpOk(body) == [kind |-> "ok", summary_text |-> body]
\* a 2xx answer whose JSON is not [{'summary_text': str}]: data[0] or .strip()
\* raises something that is not a RequestException
HttpMalformed == [kind |-> "malformed", summary_text |-> <<>>]
NoResponse == [kind |-> "none", summary_text |-> <<>>]

GraphInputs == {Note(NoText), Note(OceanText), Note(FinanceText)}
GraphResponses == {HttpError, HttpOk(PolicySummary), HttpMalformed}

\* "FF" stands for the single byte 0xff, which no UTF-8 text contains
TextInputs ==
  { Note(NoText), Note(Text29), Note(Text30), Note(TwelveWords),
    Note(Text199), Note(Text200), Note(Text350),
    Upload("text/plain", "notes.txt", OceanText),
    Upload("application/pdf", "scan.pdf", <<"%","P","D","F","FF","FF">>),
    Upload("image/png", "photo.png", <<"FF","P","N","G">>) }
TextResponses ==
  {HttpError, HttpOk(BlankSummary), HttpOk(TwelveSummary), HttpMalformed}

SecretValues == {"None", "", "secret"}

\* --------------------------------------------------------- the script body
\* `not HF_TOKEN or not SUPABASE_URL or not SUPABASE_KEY`
Falsy(v) == v \in {"None", ""}
\* variant: stops only when all three secrets are missing
missing_all_secrets(cfg) ==
  Falsy(cfg.HF_TOKEN) /\ Falsy(cfg.SUPABASE_URL) /\ Falsy(cfg.SUPABASE_KEY)
missing_secrets(cfg) ==
  Falsy(cfg.HF_TOKEN) \/ Falsy(cfg.SUPABASE_URL) \/ Falsy(cfg.SUPABASE_KEY)

OcrPlaceholder ==
  <<"O","C","R"," ","n","o","t"," ","i","m","p","l","e","m","e","n","t","e","d",
    " ","-"," ","p","l","a","c","e","h","o","l","d","e","r">>

\* str(raw) of a bytes object: b'...' with non-ASCII bytes as \xNN
RECURSIVE bytes_escape(_)
bytes_escape(raw) ==
  IF raw = <<>> THEN <<>>
  ELSE (IF Head(raw) = "FF" THEN <<"\\","x","f","f">> ELSE <<Head(raw)>>)
       \o bytes_escape(Tail(raw))
bytes_str(raw) == <<"b","'">> \o bytes_escape(raw) \o <<"'">>

\* "Read content": the text the handler goes on with
read_content(inp) ==
  IF inp.uploaded
  THEN IF inp.type \in {"image/png", "image/jpeg"}
       THEN OcrPlaceholder
       ELSE IF \E i \in 1..Len(inp.raw) : inp.raw[i] = "FF"
            THEN bytes_str(inp.raw)
            ELSE inp.raw
  ELSE inp.user_text

\* the node object; uuid4 is modelled as a value no earlier node has
make_node(id, inp, text, summary) ==
  [ id        |-> id,
    summary   |-> summary,
    content   |-> text,
    keys      |-> extract_keys(summary, TopK),
    metadata  |-> [created_at |-> "",
                   source |-> IF inp.uploaded THEN inp.name ELSE "user_note"],
    is_public |-> FALSE ]

\* variant: session_state.get("nodes", []).append(node), which appends to a
\* list the session never holds
session_get_append(ns, node) == ns
\* variant: nodes.insert(0, node)
session_prepend(ns, node) == <<node>> \o ns

\* st.session_state.setdefault("nodes", []).append(node)
session_append(ns, node) == Append(ns, node)

\* "Add nodes": one vertex per node, labelled summary[:30] + "..."
label(summary) == Prefix(summary, LabelLen) \o Ellipsis
add_nodes(ns) ==
  [i \in 1..Len(ns) |-> [id |-> ns[i].id, label |-> label(ns[i].summary)]] \o <<>>

\* variant: only the top-ranked key of each node is compared
shared_top_key(ni, nj) ==
  IF ni.keys # <<>> /\ nj.keys # <<>> /\ ni.keys[1] = nj.keys[1]
  THEN {ni.keys[1]} ELSE {}
\* variant: set(ni["keys"]) <= set(nj["keys"]), a subset test
shared_keys_subset(ni, nj) ==
  IF {ni.keys[k] : k \in 1..Len(ni.keys)} \subseteq {nj.keys[k] : k \in 1..Len(nj.keys)}
  THEN {TRUE} ELSE {}

\* set(ni["keys"]) & set(nj["keys"])
shared_keys(ni, nj) ==
  {ni.keys[k] : k \in 1..Len(ni.keys)} \cap {nj.keys[k] : k \in 1..Len(nj.keys)}

\* "Add edges for shared keys": for i, ni in enumerate(nodes): for nj in nodes[i+1:]
RECURSIVE edge_loop(_, _, _)
edge_loop(ns, i, j) ==
  IF i > Len(ns) THEN <<>>
  ELSE IF j > Len(ns) THEN edge_loop(ns, i + 1, i + 2)
  ELSE (IF shared_keys(ns[i], ns[j]) # {} THEN << <<ns[i].id, ns[j].id>> >> ELSE <<>>)
       \o edge_loop(ns, i, j + 1)
\* variant: the inner loop runs over all of nodes, not nodes[i+1:]
RECURSIVE edge_loop_all(_, _, _)
edge_loop_all(ns, i, j) ==
  IF i > Len(ns) THEN <<>>
  ELSE IF j > Len(ns) THEN edge_loop_all(ns, i + 1, 1)
  ELSE (IF shared_keys(ns[i], ns[j]) # {} THEN << <<ns[i].id, ns[j].id>> >> ELSE <<>>)
       \o edge_loop_all(ns, i, j + 1)
add_edges_all_pairs(ns) == edge_loop_all(ns, 1, 1)
\* variant: the edges are those of the list before its newest node
add_edges_stale(ns) == edge_loop(SubSeq(ns, 1, Len(ns) - 1), 1, 2)
add_edges(ns) == edge_loop(ns, 1, 2)

EmptyNetwork == [nodes |-> <<>>, edges |-> <<>>]
NoFile == [written |-> FALSE, nodes |-> <<>>, edges |-> <<>>]

\* -------------------------------------------------------------------- state
Init ==
  /\ config \in [HF_TOKEN : SecretValues, SUPABASE_URL : SecretValues,
                 SUPABASE_KEY : SecretValues]
  /\ sb = FALSE
  /\ pc = "start"
  /\ nodes = <<>>
  /\ table = <<>>
  /\ g = EmptyNetwork
  /\ graph_html = NoFile
  /\ response = NoResponse

\* lines 11-21: stop on a missing secret, else create the Supabase client
ConfigCheck ==
  /\ pc = "start"
  /\ IF missing_secrets(config)
     THEN pc' = "stopped" /\ sb' = sb
     ELSE pc' = "button" /\ sb' = TRUE
  /\ UNCHANGED <<config, nodes, table, g, graph_html, response>>

\* the button was not pressed in this run
NoClick ==
  /\ pc = "button"
  /\ pc' = "render"
  /\ UNCHANGED <<config, sb, nodes, table, g, graph_html, response>>

\* lines 67-104: read, summarize, extract keys, build the node, append it
Process(inputs, responses, cap) ==
  /\ pc = "button"
  /\ Len(nodes) < cap
  /\ \E inp \in inputs, resp \in responses :
       /\ response' = resp
       /\ IF resp.kind = "malformed"
          THEN pc' = "failed" /\ nodes' = nodes
          ELSE LET text    == read_content(inp)
                   summary == summarize(text, resp)
               IN  /\ nodes' = session_append(nodes,
                                  make_node(Len(nodes) + 1, inp, text, summary))
                   /\ pc' = "persist"
  /\ UNCHANGED <<config, sb, table, g, graph_html>>

\* lines 107-108: the insert succeeds (the response object of summarize is
\* long gone)
PersistOk ==
  /\ pc = "persist"
  /\ table' = Append(table, nodes[Len(nodes)])
  /\ pc' = "render"
  /\ response' = NoResponse
  /\ UNCHANGED <<config, sb, nodes, g, graph_html>>

\* line 107: execute() raises; the run ends there
PersistFail ==
  /\ pc = "persist"
  /\ pc' = "failed"
  /\ response' = NoResponse
  /\ UNCHANGED <<config, sb, nodes, table, g, graph_html>>

\* lines 111-112: nothing to draw
RenderNone ==
  /\ pc = "render"
  /\ nodes = <<>>
  /\ pc' = "done"
  /\ UNCHANGED <<config, sb, nodes, table, g, graph_html, response>>

\* lines 113-116
AddNodes ==
  /\ pc = "render"
  /\ nodes # <<>>
  /\ g' = [nodes |-> add_nodes(nodes), edges |-> <<>>]
  /\ pc' = "add_edges"
  /\ UNCHANGED <<config, sb, nodes, table, graph_html, response>>

\* lines 117-121
AddEdges ==
  /\ pc = "add_edges"
  /\ g' = [g EXCEPT !.edges = add_edges(nodes)]
  /\ pc' = "show"
  /\ UNCHANGED <<config, sb, nodes, table, graph_html, response>>

\* lines 122-125: write graph.html and put it on the page
Show ==
  /\ pc = "show"
  /\ graph_html' = [written |-> TRUE, nodes |-> g.nodes, edges |-> g.edges]
  /\ pc' = "rendered"
  /\ UNCHANGED <<config, sb, nodes, table, g, response>>

\* the next interaction runs the script again from the top
Rerun ==
  /\ pc \in {"stopped", "failed", "done", "rendered"}
  /\ pc' = "start"
  /\ g' = EmptyNetwork
  /\ response' = NoResponse
  /\ UNCHANGED <<config, sb, nodes, table, graph_html>>

ProcessGraph == Process(GraphInputs, GraphResponses, MaxNodes)
ProcessText == Process(TextInputs, TextResponses, MaxTextNodes)

Next ==
  \/ ConfigCheck \/ NoClick \/ ProcessGraph \/ PersistOk \/ PersistFail
  \/ RenderNone \/ AddNodes \/ AddEdges \/ Show \/ Rerun

Spec == Init /\ [][Next]_vars

NextText ==
  \/ ConfigCheck \/ NoClick \/ ProcessText \/ PersistOk \/ PersistFail
  \/ RenderNone \/ AddNodes \/ AddEdges \/ Show \/ Rerun

SpecText == Init /\ [][NextText]_vars

\* ------------------------------------------------------------- properties
Ids(net) == {net.nodes[i].id : i \in 1..Len(net.nodes)}
HasEdge(net, a, b) ==
  \E k \in 1..Len(net.edges) : net.edges[k] \in {<<a, b>>, <<b, a>>}
Overlap(n1, n2) ==
  \E x \in 1..Len(n1.keys), y \in 1..Len(n2.keys) : n1.keys[x] = n2.keys[y]
NodeOf(id) == nodes[CHOOSE i \in 1..Len(nodes) : nodes[i].id = id]
StoredIn(tbl, id) == \E k \in 1..Len(tbl) : tbl[k].id = id

\* C1: whenever a run has rendered the graph, any two distinct nodes of the
\* session list are joined by an edge exactly when they share a keyword.
C1_EdgeIffSharedKey ==
  pc = "rendered" =>
    /\ graph_html.written
    /\ \A i, j \in 1..Len(nodes) :
         i # j => (HasEdge(graph_html, nodes[i].id, nodes[j].id)
                     <=> Overlap(nodes[i], nodes[j]))

C1_Witness ==
  /\ pc = "rendered"
  /\ Len(nodes) = 3
  /\ Overlap(nodes[1], nodes[3])
  /\ HasEdge(graph_html, nodes[1].id, nodes[3].id)
  /\ ~Overlap(nodes[1], nodes[2])
  /\ ~HasEdge(graph_html, nodes[1].id, nodes[2].id)

\* C2: a vertex label is the first 30 characters of the summary plus "..."
\* when the summary has 30 characters or more, and the bare summary when it
\* has fewer.
C2_LabelAsClaimed ==
  \A v \in 1..Len(graph_html.nodes) :
    LET s == NodeOf(graph_html.nodes[v].id).summary
        l == graph_html.nodes[v].label
    IN  /\ Len(s) >= 30 => l = SubSeq(s, 1, 30) \o <<".", ".", ".">>
        /\ Len(s) < 30  => l = s

\* C3: a click whose summarization request fails still appends a node, and
\* that node's summary is the text itself when shorter than 200 characters,
\* else its first 200 characters plus "...".
C3_FallbackSummary ==
  [][(pc = "button" /\ response'.kind = "error") =>
       /\ pc' = "persist"
       /\ Len(nodes') = Len(nodes) + 1
       /\ SubSeq(nodes', 1, Len(nodes)) = nodes
       /\ LET n == nodes'[Len(nodes')]
          IN  n.summary = IF Len(n.content) < 200
                          THEN n.content
                          ELSE SubSeq(n.content, 1, 200) \o <<".", ".", ".">>]_vars

C3_Witness ==
  /\ pc = "persist"
  /\ response.kind = "error"
  /\ Len(nodes[Len(nodes)].content) = 350
  /\ Len(nodes[Len(nodes)].summary) = 203

\* C4: the node is in the session list before the insert is attempted, a
\* failed insert leaves the list as it is, and every later render has a
\* vertex and the keyword edges for each node that was never stored.
C4_NodeSurvivesStoreFailure ==
  [][/\ pc' = "persist" =>
          /\ nodes' # <<>>
          /\ ~StoredIn(table', nodes'[Len(nodes')].id)
     /\ (pc = "persist" /\ pc' = "failed") => (nodes' = nodes /\ table' = table)
     /\ pc' = "rendered" =>
          \A i \in 1..Len(nodes') :
            ~StoredIn(table', nodes'[i].id) =>
              /\ nodes'[i].id \in Ids(graph_html')
              /\ \A j \in 1..Len(nodes') :
                   j # i => (HasEdge(graph_html', nodes'[i].id, nodes'[j].id)
                               <=> Overlap(nodes'[i], nodes'[j]))]_vars

C4_Witness ==
  /\ pc = "rendered"
  /\ Len(nodes) = 2
  /\ StoredIn(table, nodes[1].id)
  /\ ~StoredIn(table, nodes[2].id)
  /\ HasEdge(graph_html, nodes[1].id, nodes[2].id)

\* C5: a step either leaves the session list alone or appends one node at
\* its end, and a rendered graph keeps its vertices, in order, and its edges
\* in every later rendering.
C5_MonotonicGrowth ==
  [][/\ \/ nodes' = nodes
        \/ /\ Len(nodes') = Len(nodes) + 1
           /\ SubSeq(nodes', 1, Len(nodes)) = nodes
     /\ graph_html.written =>
          /\ graph_html'.written
          /\ Len(graph_html'.nodes) >= Len(graph_html.nodes)
          /\ SubSeq(graph_html'.nodes, 1, Len(graph_html.nodes)) = graph_html.nodes
          /\ \A k \in 1..Len(graph_html.edges) :
               \E m \in 1..Len(graph_html'.edges) :
                 graph_html'.edges[m] = graph_html.edges[k]]_vars

C5_Witness ==
  /\ pc = "show"
  /\ Len(graph_html.nodes) = 2
  /\ graph_html.edges = << <<1, 2>> >>
  /\ Len(g.nodes) = 3
  /\ Len(g.edges) = 3

C7_EdgesWellFormed ==
  LET E == graph_html.edges
  IN  /\ \A k \in 1..Len(E) :
           /\ E[k][1] # E[k][2]
           /\ E[k][1] \in Ids(graph_html)
           /\ E[k][2] \in Ids(graph_html)
      /\ \A a, b \in Ids(graph_html) :
           LET n == Cardinality({k \in 1..Len(E) : E[k] \in {<<a, b>>, <<b, a>>}})
           IN  /\ n <= 1
               /\ (a # b /\ Overlap(NodeOf(a), NodeOf(b))) => n = 1

C7_Witness ==
  /\ graph_html.written
  /\ Len(graph_html.nodes) = 3
  /\ graph_html.edges = << <<1, 2>> >>
  /\ NodeOf(3).keys # <<>>

\* C8: a node has at most 8 keys, they are the first 8 of the ranking of its
\* summary's candidate words, and there are exactly 8 when the summary has
\* more than 8 candidates.
C8_KeysCappedFromSummary ==
  \A i \in 1..Len(nodes) :
    LET ranked == most_common(candidates(nodes[i].summary))
    IN  /\ Len(nodes[i].keys) <= 8
        /\ Len(ranked) > 8 => Len(nodes[i].keys) = 8
        /\ nodes[i].keys = SubSeq(ranked, 1, IF Len(ranked) < 8 THEN Len(ranked) ELSE 8)

C8_Witness ==
  \E i \in 1..Len(nodes) :
    /\ Len(most_common(candidates(nodes[i].summary))) = 12
    /\ Len(nodes[i].keys) = 8
    /\ candidates(nodes[i].content) = <<>>

\* C9: with a secret missing, no client is created, no node is created or
\* stored, no graph is built or rendered, and the run never gets past the
\* configuration check.
C9_MissingSecretStops ==
  (\E v \in {config.HF_TOKEN, config.SUPABASE_URL, config.SUPABASE_KEY} :
      v \in {"None", ""}) =>
    /\ sb = FALSE
    /\ nodes = <<>>
    /\ table = <<>>
    /\ g = EmptyNetwork
    /\ ~graph_html.written
    /\ pc \in {"start", "stopped"}

C9_Witness ==
  /\ pc = "stopped"
  /\ config.HF_TOKEN = "secret"
  /\ config.SUPABASE_URL = "secret"
  /\ config.SUPABASE_KEY = ""

\* C10 as stated: a node made from empty text has no keys, whatever the
\* summarization request did, and no edge in the rendered graph.
C10_EmptyTextNoKeys ==
  \A i \in 1..Len(nodes) :
    nodes[i].content = <<>> =>
      /\ nodes[i].keys = <<>>
      /\ \A b \in Ids(graph_html) : ~HasEdge(graph_html, nodes[i].id, b)

\* C10 amended: a click whose request fails appends a node, which for empty
\* text has the empty summary and no keys; and a node without keys has no
\* edge in the rendered graph or in the one being built.
C10_NoKeysNoEdges ==
  /\ [](\A i \in 1..Len(nodes) :
          nodes[i].keys = <<>> =>
            /\ \A b \in Ids(graph_html) : ~HasEdge(graph_html, nodes[i].id, b)
            /\ \A b \in Ids(g) : ~HasEdge(g, nodes[i].id, b))
  /\ [][(pc = "button" /\ response'.kind = "error") =>
          /\ pc' = "persist"
          /\ Len(nodes') = Len(nodes) + 1
          /\ nodes'[Len(nodes')].content = <<>> =>
               /\ nodes'[Len(nodes')].summary = <<>>
               /\ nodes'[Len(nodes')].keys = <<>>]_vars

C10_Witness ==
  /\ pc = "rendered"
  /\ Len(nodes) = 3
  /\ nodes[2].content = <<>>
  /\ nodes[2].keys = <<>>
  /\ HasEdge(graph_html, nodes[1].id, nodes[3].id)
  /\ Len(graph_html.edges) = 1

====
